---- MODULE Spec2Model ----
(***************************************************************************)
(* Model of src/main.py (Pharma AI Brand Manager): one run of the script   *)
(* from the first selectbox to the end of the generation loop, and the two *)
(* helpers filter_strategic_imperatives and generate_ai_output.            *)
(*                                                                         *)
(* Text is modelled as a sequence of tokens (strings), so that building a  *)
(* prompt or a heading is concatenation.  A matrix cell is a tagged value  *)
(* (blank, integer or text made of characters), so that astype(str) and    *)
(* str.lower() are computed and not assumed.                               *)
(***************************************************************************)
EXTENDS Integers, Sequences, FiniteSets, TLC

VARIABLES
    matrix_df,                \* Sheet1: [columns, rows]
    sheet2,                   \* Sheet2: the "Differentiator" column
    sheet3,                   \* Sheet3: the tactics rows
    role_selected,
    lifecycle_selected,
    journey_selected,
    strategic_options,        \* what filter_strategic_imperatives returned
    selected_strategics,
    strategics_bound,         \* whether the name selected_strategics is bound
    selected_differentiators,
    pc,                       \* position of the script
    i,                        \* index of the generation loop (1-based)
    tactic,
    calls,                    \* the calls of generate_ai_output, in order
    last_reply,               \* the service's outcome for the last call
    ai_output,
    rendered,                 \* the last record written to the page
    shown,                    \* the headers and messages written to the page
    pressed,                  \* what st.button returned
    error                     \* the unhandled exception that ended the run

vars == <<matrix_df, sheet2, sheet3, role_selected, lifecycle_selected,
          journey_selected, strategic_options, selected_strategics,
          strategics_bound, selected_differentiators, pc, i, tactic, calls,
          last_reply, ai_output, rendered, shown, pressed, error>>

----------------------------------------------------------------------------
(* Bounds of the model *)

MaxRows == 2
MaxImperatives == 4
MaxDiffs == 3

(* Program constants *)

max_selections == 3

role_placeholder == "Audience"
lifecycle_placeholder == "Product Life Cycle"
journey_placeholder == "Customer Journey Focus"

----------------------------------------------------------------------------
(* Generic helpers *)

Range(s) == {s[k] : k \in 1..Len(s)}

NoDuplicates(s) == \A a, b \in 1..Len(s) : a # b => s[a] # s[b]

\* Sequences over S of length at most n
SeqsUpTo(S, n) == UNION {[1..k -> S] : k \in 0..n}

\* The text of a list joined by a separator token
RECURSIVE Join(_, _)
Join(items, sep) ==
    IF Len(items) = 0 THEN <<>>
    ELSE IF Len(items) = 1 THEN <<items[1]>>
    ELSE <<items[1], sep>> \o Join(Tail(items), sep)

----------------------------------------------------------------------------
(* Cells of the matrix: pandas values *)

NaN == "<NaN>"

CellNaN == [k |-> "nan", s |-> <<>>, n |-> 0]
CellInt(v) == [k |-> "int", s |-> <<>>, n |-> v]
CellStr(chars) == [k |-> "str", s |-> chars, n |-> 0]

DigitChar(d) == CASE d = 0 -> "0" [] d = 1 -> "1" [] d = 2 -> "2" [] d = 3 -> "3"
                  [] d = 4 -> "4" [] d = 5 -> "5" [] d = 6 -> "6" [] d = 7 -> "7"
                  [] d = 8 -> "8" [] OTHER -> "9"

RECURSIVE IntToStr(_)
IntToStr(v) == IF v < 10 THEN <<DigitChar(v)>>
               ELSE IntToStr(v \div 10) \o <<DigitChar(v % 10)>>

\* Series.astype(str) on one cell of an object column
AsStr(cell) ==
    CASE cell.k = "nan" -> <<"n", "a", "n">>
      [] cell.k = "int" -> IntToStr(cell.n)
      [] OTHER -> cell.s

LowerChar(c) == CASE c = "X" -> "x" [] c = "Y" -> "y" [] c = "N" -> "n"
                  [] c = "A" -> "a" [] OTHER -> c

\* Series.str.lower() on one cell
Lower(chars) == [k \in 1..Len(chars) |-> LowerChar(chars[k])]

IsMarkedNoLower(cell) == AsStr(cell) = <<"x">>

\* (df[col].astype(str).str.lower() == 'x') on one cell
IsMarked(cell) == Lower(AsStr(cell)) = <<"x">>

----------------------------------------------------------------------------
(* Messages and headers written to the page *)

Msg(tag, arg) == [tag |-> tag, arg |-> arg]

ErrColumns == Msg("error: columns do not match the expected names", "")
ErrFiltering == Msg("error: filtering strategic imperatives", "")
WarnNoImperatives == Msg("warning: no strategic imperatives found", "")
InfoStep1 == Msg("info: complete all criteria selections", "")
InfoStep2 == Msg("info: select at least one strategic imperative", "")
InfoStep3 == Msg("info: select at least one product differentiator", "")
InfoNoTactic(imperative) == Msg("info: no tactic found", imperative)
ErrDecoding == Msg("error: decoding the response", "")
ErrGenerating == Msg("error: generating tactical recommendation", "")
HdrStep2 == Msg("header: Step 2", "")
HdrStep3 == Msg("header: Step 3", "")
HdrTactical == Msg("header: Tactical Recommendations", "")

----------------------------------------------------------------------------
(* Sheet1: the header row and the rows of the matrix *)

NameColumn == "Strategic Imperative"

\* The header of Sheet1, columns A to M, with the first column named nameCol
Header(nameCol) ==
    <<nameCol, "HCP", "Patient", "Caregiver", "Notes",
      "Pre-Launch", "Launch", "Growth", "Maturity",
      "Awareness", "Consideration", "Trial", "Loyalty">>

\* A row of the sheet: the name in the first column, cells given for four of
\* the option columns, every other cell blank
MkRow(nameCol, name, hcp, patient, launch, awareness) ==
    [c \in Range(Header(nameCol)) |->
        CASE c = nameCol -> IF name = NaN THEN CellNaN ELSE CellStr(<<name>>)
          [] c = "HCP" -> hcp
          [] c = "Patient" -> patient
          [] c = "Launch" -> launch
          [] c = "Awareness" -> awareness
          [] OTHER -> CellNaN]

Columns(df) == Range(df.columns)

\* The value of a row in the name column: NaN for a blank cell
NameOf(row, nameCol) ==
    IF row[nameCol].k = "nan" THEN NaN ELSE row[nameCol].s[1]

\* load_criteria: the option lists are slices of the header
role_options_of(df) == SubSeq(df.columns, 2, 4)
lifecycle_options_of(df) == SubSeq(df.columns, 6, 9)
journey_options_of(df) == SubSeq(df.columns, 10, 13)

filtered_role_options_of(df) ==
    SelectSeq(role_options_of(df), LAMBDA option : option # "Caregiver")

new_role_options == <<role_placeholder>> \o filtered_role_options_of(matrix_df)
new_lifecycle_options == <<lifecycle_placeholder>> \o lifecycle_options_of(matrix_df)
new_journey_options == <<journey_placeholder>> \o journey_options_of(matrix_df)

----------------------------------------------------------------------------
(* filter_strategic_imperatives *)

DropNa(names) == SelectSeq(names, LAMBDA v : v # NaN)

\* the mask of lines 69-73 on one row
RowMatches(row, role, lifecycle, journey) ==
    IsMarked(row[role]) /\ IsMarked(row[lifecycle]) /\ IsMarked(row[journey])

\* The returned list and the errors written to the page
filter_strategic_imperatives(df, role, lifecycle, journey) ==
    IF role \notin Columns(df) \/ lifecycle \notin Columns(df)
          \/ journey \notin Columns(df)
    THEN [result |-> <<>>, errs |-> {ErrColumns}]
    ELSE IF NameColumn \notin Columns(df)
    THEN \* KeyError at line 74, caught at line 75
         [result |-> <<>>, errs |-> {ErrFiltering}]
    ELSE LET filtered == SelectSeq(df.rows,
                            LAMBDA row : RowMatches(row, role, lifecycle, journey))
             names == [k \in 1..Len(filtered) |-> NameOf(filtered[k], NameColumn)]
         IN [result |-> DropNa(names), errs |-> {}]

----------------------------------------------------------------------------
(* Sheet2 and Sheet3 *)

\* sheet2["Differentiator"].dropna().unique().tolist()
RECURSIVE Unique(_)
Unique(vals) ==
    IF Len(vals) = 0 THEN <<>>
    ELSE LET front == Unique(SubSeq(vals, 1, Len(vals) - 1))
             last == vals[Len(vals)]
         IN IF last \in Range(front) THEN front ELSE Append(front, last)

product_diff_options_of(column) == Unique(DropNa(column))

\* sheet3[sheet3["Strategic Imperative"] == imperative]
TacticRows(table, imperative) ==
    SelectSeq(table, LAMBDA row : row.imperative = imperative)

TacticColumnByImperative(role, imperative) ==
    IF imperative = "Improve Adherence" THEN "HCP Engagement"
    ELSE "Patient & Caregiver"

\* lines 176-179: the column is chosen by the role
TacticColumn(role, imperative) ==
    IF role = "HCP" THEN "HCP Engagement" ELSE "Patient & Caregiver"

\* row[column].iloc[0]
IlocFirst(rows, column) == rows[1].cols[column]

----------------------------------------------------------------------------
(* generate_ai_output *)

PromptHead == "You are an expert pharmaceutical marketing strategist. Given the following tactic: "
PromptMid == " and considering the selected product differentiators: "
PromptTail == ", explain in 2-3 sentences [...] Return ONLY a JSON object with exactly the following keys: description, cost, timeframe."

\* line 89
DifferentiatorsText(selected) ==
    IF Len(selected) > 0 THEN Join(selected, ", ") ELSE <<"None">>

\* lines 90-97: the f-string
Prompt(tactic_text, selected) ==
    <<PromptHead>> \o tactic_text \o <<PromptMid>> \o DifferentiatorsText(selected)
        \o <<PromptTail>>

\* JSON values: a dict maps its keys to typed values; other values keep their type
JStr(v) == [t |-> "str", v |-> v]
JNum(v) == [t |-> "num", v |-> v]
JDict(d) == [t |-> "dict", d |-> d]
JOther(t) == [t |-> t, d |-> [key \in {} |-> JStr("")]]

Sentinel ==
    JDict([key \in {"description", "cost", "timeframe"} |-> JStr("N/A")])

GoodReply ==
    JDict([description |-> JStr("Webinars reach prescribers."),
           cost |-> JStr("$10,000 - $20,000"),
           timeframe |-> JStr("3-6 months")])

\* What the service can do with a call: raise, or answer with a content
Replies ==
    {"raises", "content is None", "plain text", "good", "list", "string",
     "missing keys", "extra key", "number value"}

\* json.loads(content)
JsonLoads(content) ==
    CASE content = "plain text" -> [ok |-> FALSE, val |-> Sentinel]
      [] content = "good" -> [ok |-> TRUE, val |-> GoodReply]
      [] content = "list" -> [ok |-> TRUE, val |-> JOther("list")]
      [] content = "string" -> [ok |-> TRUE, val |-> JOther("str")]
      [] content = "missing keys" ->
            [ok |-> TRUE, val |-> JDict([description |-> JStr("Only a description.")])]
      [] content = "extra key" ->
            [ok |-> TRUE,
             val |-> JDict([description |-> JStr("d"), cost |-> JStr("c"),
                            timeframe |-> JStr("t"), risk |-> JStr("r")])]
      [] OTHER ->
            [ok |-> TRUE,
             val |-> JDict([description |-> JStr("d"), cost |-> JNum("15000"),
                            timeframe |-> JStr("t")])]

OnDecodeErrorRaise(reply) == [raised |-> TRUE, output |-> Sentinel, errs |-> {}]

\* lines 111-113
OnDecodeError(reply) == [raised |-> FALSE, output |-> Sentinel, errs |-> {ErrDecoding}]

\* lines 98-117: what the function returns for the service's reply
generate_ai_output(reply) ==
    IF reply \in {"raises", "content is None"}
    THEN \* the call, or .strip() on None, raises: caught at line 115
         [raised |-> FALSE, output |-> Sentinel, errs |-> {ErrGenerating}]
    ELSE LET parsed == JsonLoads(reply)
         IN IF parsed.ok
            THEN [raised |-> FALSE, output |-> parsed.val, errs |-> {}]
            ELSE OnDecodeError(reply)

\* dict.get(key, default) on a JSON dict, as written by st.write
Get(output, key, default) ==
    IF key \in DOMAIN output.d THEN output.d[key].v ELSE default

----------------------------------------------------------------------------
(* The widgets *)

\* st.selectbox: one of the options
SelectboxValues(options) == Range(options)

\* st.multiselect(options, max_selections): distinct options in selection order
MultiselectValues(options, limit) ==
    {sel \in SeqsUpTo(Range(options), limit) : NoDuplicates(sel)}

----------------------------------------------------------------------------
(* The script, step by step *)

\* line 132
CriteriaComplete(role, lifecycle, journey) ==
    role # role_placeholder /\ lifecycle # lifecycle_placeholder
        /\ journey # journey_placeholder

\* lines 127-132 and 191-192: the three selectboxes and the gate of Step 2
Step1 ==
    /\ pc = "step1"
    /\ \E role \in SelectboxValues(new_role_options),
          lifecycle \in SelectboxValues(new_lifecycle_options),
          journey \in SelectboxValues(new_journey_options) :
            /\ role_selected' = role
            /\ lifecycle_selected' = lifecycle
            /\ journey_selected' = journey
            /\ IF CriteriaComplete(role, lifecycle, journey)
               THEN pc' = "step2" /\ shown' = shown \cup {HdrStep2}
               ELSE pc' = "done" /\ shown' = shown \cup {InfoStep1}
    /\ UNCHANGED <<pressed, matrix_df, sheet2, sheet3, strategic_options,
                   selected_strategics, strategics_bound,
                   selected_differentiators, i, tactic, calls, last_reply,
                   ai_output, rendered, error>>

\* lines 135-137: the filter is called; an empty list gets the warning
Step2Filter ==
    /\ pc = "step2"
    /\ LET got == filter_strategic_imperatives(matrix_df, role_selected,
                                               lifecycle_selected, journey_selected)
       IN /\ strategic_options' = got.result
          /\ IF got.result = <<>>
             THEN /\ shown' = shown \cup got.errs \cup {WarnNoImperatives}
                  /\ pc' = "gate"
             ELSE /\ shown' = shown \cup got.errs
                  /\ pc' = "multiselect"
    /\ UNCHANGED <<pressed, matrix_df, sheet2, sheet3, role_selected, lifecycle_selected,
                   journey_selected, selected_strategics, strategics_bound,
                   selected_differentiators, i, tactic, calls, last_reply,
                   ai_output, rendered, error>>

\* lines 138-139: the multiselect binds selected_strategics
Step2Multiselect ==
    /\ pc = "multiselect"
    /\ \E sel \in MultiselectValues(strategic_options, max_selections) :
          selected_strategics' = sel
    /\ strategics_bound' = TRUE
    /\ pc' = "gate"
    /\ UNCHANGED <<pressed, matrix_df, sheet2, sheet3, role_selected, lifecycle_selected,
                   journey_selected, strategic_options, selected_differentiators,
                   i, tactic, calls, last_reply, ai_output, rendered, shown, error>>

\* line 142: selected_strategics and len(selected_strategics) > 0
ImperativesSelected(selected) == Len(selected) > 0

\* lines 142 and 189-190: the gate of Step 3 reads selected_strategics; a name
\* that was never bound raises NameError, which nothing catches
Step3Gate ==
    /\ pc = "gate"
    /\ IF ~strategics_bound
       THEN pc' = "crashed" /\ error' = "NameError" /\ shown' = shown
       ELSE IF ImperativesSelected(selected_strategics)
       THEN pc' = "step3" /\ error' = error /\ shown' = shown \cup {HdrStep3}
       ELSE pc' = "done" /\ error' = error /\ shown' = shown \cup {InfoStep2}
    /\ UNCHANGED <<pressed, matrix_df, sheet2, sheet3, role_selected, lifecycle_selected,
                   journey_selected, strategic_options, selected_strategics,
                   strategics_bound, selected_differentiators, i, tactic, calls,
                   last_reply, ai_output, rendered>>

DifferentiatorsGateOpen(selected) == TRUE

\* line 156
DifferentiatorsSelected(selected) == Len(selected) > 0

\* lines 152-156 and 187-188: the differentiators are read and selected
Step3Select ==
    /\ pc = "step3"
    /\ \E sel \in MultiselectValues(product_diff_options_of(sheet2), max_selections) :
          /\ selected_differentiators' = sel
          /\ IF DifferentiatorsSelected(sel)
             THEN pc' = "button" /\ shown' = shown
             ELSE pc' = "done" /\ shown' = shown \cup {InfoStep3}
    /\ UNCHANGED <<pressed, matrix_df, sheet2, sheet3, role_selected, lifecycle_selected,
                   journey_selected, strategic_options, selected_strategics,
                   strategics_bound, i, tactic, calls, last_reply, ai_output,
                   rendered, error>>

\* lines 157-158: the button
Button ==
    /\ pc = "button"
    /\ \E clicked \in BOOLEAN :
          /\ pressed' = clicked
          /\ IF clicked
             THEN pc' = "loop" /\ i' = 1 /\ shown' = shown \cup {HdrTactical}
             ELSE pc' = "done" /\ i' = i /\ shown' = shown
    /\ UNCHANGED <<matrix_df, sheet2, sheet3, role_selected, lifecycle_selected,
                   journey_selected, strategic_options, selected_strategics,
                   strategics_bound, selected_differentiators, tactic, calls,
                   last_reply, ai_output, rendered, error>>

\* lines 170-174: no row of Sheet3 for the imperative
LoopNoTactic ==
    /\ pc = "loop"
    /\ i <= Len(selected_strategics)
    /\ TacticRows(sheet3, selected_strategics[i]) = <<>>
    /\ shown' = shown \cup {InfoNoTactic(selected_strategics[i])}
    /\ i' = i + 1
    /\ UNCHANGED <<pressed, matrix_df, sheet2, sheet3, role_selected, lifecycle_selected,
                   journey_selected, strategic_options, selected_strategics,
                   strategics_bound, selected_differentiators, pc, tactic, calls,
                   last_reply, ai_output, rendered, error>>

NoteWithSuffix(tactic_text, selected) ==
    IF Len(selected) = 0 THEN tactic_text
    ELSE tactic_text \o <<" (Customized with: ">> \o Join(selected, ", ") \o <<")">>

\* line 182: the first argument of generate_ai_output
TextGiven(tactic_text, selected) == tactic_text

\* lines 170-182 and 89-107: the tactic is resolved and the service is called
LoopCall ==
    /\ pc = "loop"
    /\ i <= Len(selected_strategics)
    /\ LET imperative == selected_strategics[i]
           row == TacticRows(sheet3, imperative)
       IN /\ row # <<>>
          /\ tactic' = IlocFirst(row, TacticColumn(role_selected, imperative))
          /\ calls' = Append(calls,
                [imperative |-> imperative,
                 tactic_text |-> TextGiven(tactic', selected_differentiators),
                 differentiators |-> selected_differentiators,
                 prompt |-> Prompt(TextGiven(tactic', selected_differentiators),
                                   selected_differentiators)])
    /\ pc' = "generating"
    /\ UNCHANGED <<pressed, matrix_df, sheet2, sheet3, role_selected, lifecycle_selected,
                   journey_selected, strategic_options, selected_strategics,
                   strategics_bound, selected_differentiators, i, last_reply,
                   ai_output, rendered, shown, error>>

\* lines 98-117: the service answers and generate_ai_output returns
GenReturn ==
    /\ pc = "generating"
    /\ \E reply \in Replies :
          LET got == generate_ai_output(reply)
          IN /\ last_reply' = reply
             /\ ai_output' = got.output
             /\ shown' = shown \cup got.errs
             /\ IF got.raised
                THEN pc' = "crashed" /\ error' = "JSONDecodeError"
                ELSE pc' = "render" /\ error' = error
    /\ UNCHANGED <<pressed, matrix_df, sheet2, sheet3, role_selected, lifecycle_selected,
                   journey_selected, strategic_options, selected_strategics,
                   strategics_bound, selected_differentiators, i, tactic, calls,
                   rendered>>

\* lines 183-186: the record is written; .get on a value that is no dict raises
\* AttributeError, which nothing catches
Render ==
    /\ pc = "render"
    /\ IF ai_output.t = "dict"
       THEN /\ rendered' =
                  [heading |-> <<selected_strategics[i], ": ">> \o tactic,
                   description |-> Get(ai_output, "description", "No description available."),
                   cost |-> Get(ai_output, "cost", "N/A"),
                   timeframe |-> Get(ai_output, "timeframe", "N/A")]
            /\ i' = i + 1
            /\ pc' = "loop"
            /\ error' = error
       ELSE /\ pc' = "crashed"
            /\ error' = "AttributeError"
            /\ UNCHANGED <<rendered, i>>
    /\ UNCHANGED <<pressed, matrix_df, sheet2, sheet3, role_selected, lifecycle_selected,
                   journey_selected, strategic_options, selected_strategics,
                   strategics_bound, selected_differentiators, tactic, calls,
                   last_reply, ai_output, shown>>

\* line 170: the loop is over
LoopEnd ==
    /\ pc = "loop"
    /\ i > Len(selected_strategics)
    /\ pc' = "done"
    /\ UNCHANGED <<pressed, matrix_df, sheet2, sheet3, role_selected, lifecycle_selected,
                   journey_selected, strategic_options, selected_strategics,
                   strategics_bound, selected_differentiators, i, tactic, calls,
                   last_reply, ai_output, rendered, shown, error>>

----------------------------------------------------------------------------
(* The workbooks of the model *)

cx == CellStr(<<"x">>)
cX == CellStr(<<"X">>)

ImperativeNames ==
    <<"Improve Adherence", "Build Awareness", "Drive Trial", "Grow Loyalty",
      "Expand Access", "Educate Prescribers">>

DifferentiatorNames ==
    <<"Once-daily dosing", "Fewer side effects", "Lower cost", "Oral form",
      "Long shelf life">>

\* Sheet1 with n rows that all carry the marker under HCP, Launch and Awareness,
\* the odd ones under Patient too (in upper case), the first under Growth
FlowMatrix(n, nameCol) ==
    [columns |-> Header(nameCol),
     rows |-> [k \in 1..n |->
                 [MkRow(nameCol, ImperativeNames[k], cx,
                        IF k % 2 = 1 THEN cX ELSE CellNaN, cx, cx)
                    EXCEPT !["Growth"] = IF k = 1 THEN cx ELSE CellNaN]]]

TacticRow(name, variant) ==
    [imperative |-> name,
     cols |-> [c \in {"Patient & Caregiver", "HCP Engagement"} |->
                 <<variant, c, " tactic for ", name>>]]

\* Sheet3 with a row for every imperative but the missing ones, and then a
\* second row for each of them with another text
TacticsTable(missing) ==
    LET present == SelectSeq([k \in 1..MaxImperatives |-> k],
                             LAMBDA k : k \notin missing)
    IN [k \in 1..Len(present) |-> TacticRow(ImperativeNames[present[k]], "First")]
       \o [k \in 1..Len(present) |-> TacticRow(ImperativeNames[present[k]], "Second")]

\* The Differentiator column of Sheet2: m names, a blank cell and a repeated name
DiffColumn(m) ==
    IF m = 0 THEN <<NaN>>
    ELSE <<DifferentiatorNames[1], NaN>>
         \o [k \in 1..(m - 1) |-> DifferentiatorNames[k + 1]]
         \o <<DifferentiatorNames[1]>>

\* The cells of a row under HCP, Patient, Launch and Awareness
CellPatterns ==
    {<<cx, cx, cx, cx>>,
     <<cX, CellStr(<<"x", "x">>), cx, cX>>,
     <<CellNaN, cX, cX, cx>>,
     <<cx, cx, CellNaN, cx>>,
     <<cx, CellStr(<<"y">>), cx, CellInt(1)>>,
     <<CellInt(0), cx, cx, cx>>}

FilterNames == {ImperativeNames[1], ImperativeNames[2], NaN}

FilterRows(nameCol) ==
    {MkRow(nameCol, name, p[1], p[2], p[3], p[4]) :
        name \in FilterNames, p \in CellPatterns}

FilterMatrices ==
    UNION {[columns : {Header(nameCol)}, rows : SeqsUpTo(FilterRows(nameCol), MaxRows)] :
              nameCol \in {NameColumn, "Imperative"}}

----------------------------------------------------------------------------
(* The run of the script *)

NoOutput == JOther("none")

NoRecord == [heading |-> <<>>, description |-> "", cost |-> "", timeframe |-> ""]

\* The state of a run before the first widget
Fresh ==
    /\ role_selected = role_placeholder
    /\ lifecycle_selected = lifecycle_placeholder
    /\ journey_selected = journey_placeholder
    /\ strategic_options = <<>>
    /\ selected_strategics = <<>>
    /\ strategics_bound = FALSE
    /\ selected_differentiators = <<>>
    /\ i = 0
    /\ tactic = <<>>
    /\ calls = <<>>
    /\ last_reply = "none"
    /\ ai_output = NoOutput
    /\ rendered = NoRecord
    /\ shown = {}
    /\ pressed = FALSE
    /\ error = "none"

Init ==
    /\ \E n \in {0, MaxImperatives}, nameCol \in {NameColumn, "Imperative"} :
          matrix_df = FlowMatrix(n, nameCol)
    /\ \E m \in {0, MaxDiffs} : sheet2 = DiffColumn(m)
    /\ \E missing \in {{}, {1, 2}} : sheet3 = TacticsTable(missing)
    /\ Fresh
    /\ pc = "step1"

Next ==
    \/ Step1
    \/ Step2Filter
    \/ Step2Multiselect
    \/ Step3Gate
    \/ Step3Select
    \/ Button
    \/ LoopNoTactic
    \/ LoopCall
    \/ GenReturn
    \/ Render
    \/ LoopEnd

Spec == Init /\ [][Next]_vars

\* The filter as a function: any matrix of the family, any three names
InitFilter ==
    /\ matrix_df \in FilterMatrices
    /\ sheet2 = DiffColumn(0)
    /\ sheet3 = TacticsTable({})
    /\ strategic_options = <<>>
    /\ selected_strategics = <<>>
    /\ strategics_bound = FALSE
    /\ selected_differentiators = <<>>
    /\ i = 0
    /\ tactic = <<>>
    /\ calls = <<>>
    /\ last_reply = "none"
    /\ ai_output = NoOutput
    /\ rendered = NoRecord
    /\ error = "none"
    /\ role_selected \in {"HCP", "Patient", "Nurse"}
    /\ lifecycle_selected \in {"Launch", "Growth", "Decline"}
    /\ journey_selected \in {"Awareness", "Advocacy"}
    /\ shown = {HdrStep2}
    /\ pressed = FALSE
    /\ pc = "step2"

NextFilter == Step2Filter

SpecFilter == InitFilter /\ [][NextFilter]_vars

----------------------------------------------------------------------------
(* Claims about filter_strategic_imperatives, checked under SpecFilter *)

FilterReturned == pc # "step2"

SelectedColumns == {role_selected, lifecycle_selected, journey_selected}

\* A cell that holds the marker: the text "x" or "X", nothing else
HoldsMarker(cell) == cell.k = "str" /\ cell.s \in {<<"x">>, <<"X">>}

\* The rows (by position) that carry the marker in the three selected columns
\* and have a name
NamedQualifyingRows ==
    {k \in 1..Len(matrix_df.rows) :
        /\ \A c \in SelectedColumns : HoldsMarker(matrix_df.rows[k][c])
        /\ NameColumn \in Columns(matrix_df)
        /\ matrix_df.rows[k][NameColumn].k = "str"}

\* C1: when the matrix has the three selected columns, the filter returns
\* exactly the names of the rows whose three selected cells are "x" or "X" and
\* whose name is not blank, in the row order of the matrix; every other row
\* contributes nothing.
C1_FilterReturnsMarkedRows ==
    (FilterReturned /\ SelectedColumns \subseteq Columns(matrix_df)) =>
        /\ Len(strategic_options) = Cardinality(NamedQualifyingRows)
        /\ \A k \in NamedQualifyingRows :
              strategic_options[Cardinality({m \in NamedQualifyingRows : m <= k})]
                  = matrix_df.rows[k][NameColumn].s[1]

\* C1 witness: a matrix of two rows where the first is left out for a cell
\* that is not the marker and the second is returned thanks to an upper-case X
C1_Witness ==
    /\ FilterReturned
    /\ SelectedColumns \subseteq Columns(matrix_df)
    /\ Len(matrix_df.rows) = 2
    /\ NamedQualifyingRows = {2}
    /\ matrix_df.rows[1][NameColumn].k = "str"
    /\ \E c \in SelectedColumns : matrix_df.rows[2][c] = cX
    /\ strategic_options = <<matrix_df.rows[2][NameColumn].s[1]>>

\* C3: when one of the three selected names is not a column of the matrix, the
\* step fails with a SchemaMismatch error and stops: the run does not go on to
\* report "no strategic imperatives found" as it does when no row qualifies.
C3_MissingColumnFails ==
    (FilterReturned /\ ~(SelectedColumns \subseteq Columns(matrix_df))) =>
        /\ error = "SchemaMismatch"
        /\ pc = "crashed"
        /\ WarnNoImperatives \notin shown

\* C4: no imperative name appears twice in what the filter returns.
C4_NoNameTwice ==
    FilterReturned => NoDuplicates(strategic_options)

----------------------------------------------------------------------------
(* Claims about the run of the script, checked under Spec *)

InLoop == pc \in {"loop", "generating", "render"}

RunEnded == pc \in {"done", "crashed"}

HasTacticRow(imperative) == \E r \in 1..Len(sheet3) : sheet3[r].imperative = imperative

\* C2: the steps are gated in order.  Step 2 is offered only with the three
\* criteria set to an option that is no placeholder; Step 3 only with at least
\* one imperative selected; the generation loop is entered, and a call of
\* generate_ai_output made, only with at least one differentiator selected
\* and the button pressed; and at every call the numbers of selected
\* imperatives and of selected differentiators are between 1 and 3.
C2_StepsGatedInOrder ==
    /\ HdrStep2 \in shown =>
          /\ role_selected # "Audience"
          /\ lifecycle_selected # "Product Life Cycle"
          /\ journey_selected # "Customer Journey Focus"
    /\ HdrStep3 \in shown =>
          /\ HdrStep2 \in shown
          /\ strategics_bound
          /\ Len(selected_strategics) >= 1
    /\ (InLoop \/ HdrTactical \in shown \/ calls # <<>>) =>
          /\ HdrStep3 \in shown
          /\ Len(selected_differentiators) >= 1
          /\ pressed
    /\ \A k \in 1..Len(calls) :
          /\ Len(selected_strategics) \in 1..3
          /\ Len(calls[k].differentiators) \in 1..3

\* C2 witness: a call made with three imperatives and three differentiators
\* selected, out of four imperatives on offer
C2_Witness ==
    /\ pc = "generating"
    /\ Len(strategic_options) = 4
    /\ Len(selected_strategics) = 3
    /\ Len(calls[1].differentiators) = 3

\* The rows of Sheet3 for the imperative being processed
FirstRowOf(imperative) ==
    CHOOSE r \in 1..Len(sheet3) :
        /\ sheet3[r].imperative = imperative
        /\ \A q \in 1..(r - 1) : sheet3[q].imperative # imperative

\* C5: the resolved tactic is the text of the first row of Sheet3 for the
\* imperative, in the column the role alone chooses: "HCP Engagement" for the
\* role "HCP", "Patient & Caregiver" for every other role.
C5_TacticByRoleColumn ==
    pc \in {"generating", "render"} =>
        /\ HasTacticRow(selected_strategics[i])
        /\ tactic = sheet3[FirstRowOf(selected_strategics[i])].cols[
                        IF role_selected = "HCP" THEN "HCP Engagement"
                        ELSE "Patient & Caregiver"]

\* C5 witness: a tactic resolved for a role other than HCP, for an imperative
\* with two rows in Sheet3, the second imperative of the selection
C5_Witness ==
    /\ pc = "generating"
    /\ role_selected = "Patient"
    /\ i = 2
    /\ Cardinality({r \in 1..Len(sheet3) :
                       sheet3[r].imperative = selected_strategics[i]}) = 2
    /\ tactic = <<"First", "Patient & Caregiver", " tactic for ", selected_strategics[i]>>

\* C6: when the run is over, one call was made for each selected imperative
\* that has a row in Sheet3, in selection order, and a notice was shown for
\* each one that has none.
C6_OneCallPerImperativeWithTactic ==
    (RunEnded /\ HdrTactical \in shown) =>
        /\ [k \in 1..Len(calls) |-> calls[k].imperative]
              = SelectSeq(selected_strategics, HasTacticRow)
        /\ \A k \in 1..Len(selected_strategics) :
              ~HasTacticRow(selected_strategics[k])
                  => InfoNoTactic(selected_strategics[k]) \in shown

\* The same for the runs that no unhandled error ended
C6_HoldsWithoutCrash ==
    (pc = "done" /\ HdrTactical \in shown) =>
        /\ [k \in 1..Len(calls) |-> calls[k].imperative]
              = SelectSeq(selected_strategics, HasTacticRow)
        /\ \A k \in 1..Len(selected_strategics) :
              ~HasTacticRow(selected_strategics[k])
                  => InfoNoTactic(selected_strategics[k]) \in shown

NotAvailable ==
    [t |-> "dict",
     d |-> [description |-> [t |-> "str", v |-> "N/A"],
            cost |-> [t |-> "str", v |-> "N/A"],
            timeframe |-> [t |-> "str", v |-> "N/A"]]]

\* C7: generate_ai_output never raises.  When the call fails or the reply is
\* no JSON, it returns the record of three "N/A" with an error message on the
\* page; the loop then writes that record and moves to the next imperative.
C7_FailureGivesSentinelAndLoopGoesOn ==
    [][/\ (pc = "generating" /\ pc' # "generating") =>
              /\ pc' = "render"
              /\ error' = "none"
              /\ last_reply' \in {"raises", "content is None", "plain text"} =>
                    /\ ai_output' = NotAvailable
                    /\ \/ ErrDecoding \in shown'
                       \/ ErrGenerating \in shown'
       /\ (pc = "render" /\ pc' # "render"
             /\ last_reply \in {"raises", "content is None", "plain text"}) =>
              /\ pc' = "loop"
              /\ i' = i + 1
              /\ error' = "none"
              /\ rendered'.description = "N/A"
              /\ rendered'.cost = "N/A"
              /\ rendered'.timeframe = "N/A"]_vars

\* C7 witness: the call for the first imperative failed, its record was
\* written, and the call for the second imperative has been made
C7_Witness ==
    /\ pc = "generating"
    /\ Len(calls) = 2
    /\ last_reply = "plain text"
    /\ rendered.description = "N/A"
    /\ ErrDecoding \in shown
    /\ error = "none"

\* The selected differentiators as text: the names with ", " between them
IsJoinOf(text, items) ==
    /\ Len(text) = 2 * Len(items) - 1
    /\ \A k \in 1..Len(items) : text[2 * k - 1] = items[k]
    /\ \A k \in 1..(Len(items) - 1) : text[2 * k] = ", "

\* C8 as stated: with differentiators selected, the text given to the call and
\* shown in the record is the tactic followed by " (Customized with: d1, d2)".
C8_NoteCarriesSuffix ==
    /\ (pc = "generating" /\ selected_differentiators # <<>>) =>
          \E joined \in SeqsUpTo(Range(selected_differentiators) \cup {", "}, 5) :
             /\ IsJoinOf(joined, selected_differentiators)
             /\ calls[Len(calls)].tactic_text
                   = tactic \o <<" (Customized with: ">> \o joined \o <<")">>
    /\ (pc = "generating" /\ selected_differentiators = <<>>) =>
          calls[Len(calls)].tactic_text = tactic

\* C8 as amended: the text given to the call and shown in the heading of the
\* record is the tactic unchanged; the differentiators are given apart and
\* stand in the prompt joined by ", " in selection order.
C8_TacticGivenUnchanged ==
    /\ pc = "generating" =>
          LET call == calls[Len(calls)]
              n == Len(tactic)
              m == 2 * Len(selected_differentiators) - 1
          IN /\ call.tactic_text = tactic
             /\ call.differentiators = selected_differentiators
             /\ Len(call.prompt) = n + m + 3
             /\ SubSeq(call.prompt, 2, n + 1) = tactic
             /\ IsJoinOf(SubSeq(call.prompt, n + 3, n + m + 2), selected_differentiators)
    /\ (pc = "loop" /\ rendered # NoRecord) =>
          rendered.heading = <<calls[Len(calls)].imperative, ": ">> \o tactic

\* C8 witness: a call made with two differentiators selected, the second of
\* the sheet first
C8_Witness ==
    /\ pc = "generating"
    /\ selected_differentiators = <<DifferentiatorNames[2], DifferentiatorNames[1]>>
    /\ calls[1].tactic_text = tactic

\* C9: the record that generate_ai_output returns is a dict with exactly the
\* keys description, cost and timeframe, each a string, and writing it never
\* fails.
C9_ReturnedRecordIsValidated ==
    /\ pc = "render" =>
          /\ ai_output.t = "dict"
          /\ DOMAIN ai_output.d = {"description", "cost", "timeframe"}
          /\ \A key \in DOMAIN ai_output.d : ai_output.d[key].t = "str"
    /\ error # "AttributeError"

\* C10: with the three criteria selected and nothing returned by the filter,
\* the run ends normally: the warning is shown, Step 3 is not offered, no call
\* is made, and selected_strategics is bound when the gate of Step 3 reads it.
C10_EmptyFilterEndsNormally ==
    (RunEnded /\ HdrStep2 \in shown /\ strategic_options = <<>>) =>
        /\ pc = "done"
        /\ error = "none"
        /\ strategics_bound
        /\ WarnNoImperatives \in shown
        /\ HdrStep3 \notin shown
        /\ calls = <<>>

====
